---- MODULE Spec2Model ----
(***************************************************************************)
(* Ticket Desk scraper server (src/server.py): the scrape cycle run by a   *)
(* background thread, the single-threaded HTTP server's /scrape and /relay *)
(* handlers, the relay file and the history file.                          *)
(*                                                                         *)
(* Conventions.  A Python value that may be None is a sequence: None is    *)
(* <<>> and a present value x is <<x>>.  A JSON number or an extracted     *)
(* price x is the integer x * Scale (Scale = 2: half dollars), so that the *)
(* conversions round() and int() are not the identity.  A timestamp is a   *)
(* record [day |-> d] (the clock is read at the resolution of a day);      *)
(* strftime('%Y-%m-%d') is its day.                                        *)
(***************************************************************************)
EXTENDS Integers, Sequences, FiniteSets

\* ---------------------------------------------------------------- bounds
\* Number of scrape cycles the /scrape handler starts in one behaviour.
MaxCycles == 2
\* Last UTC day the clock reaches (days are 0..MaxDay).
MaxDay == 1
\* Resolution of a number: x is represented by x * Scale.
Scale == 2

\* ------------------------------------------------------ program constants
PRICE_MIN == 800
PRICE_MAX == 12000
SCRAPE_TOKEN == "changeme"
\* body.get('count', 10)
DefaultCount == 10
\* 'aisle_count': 2
AisleCount == 2

None == <<>>
Some(x) == <<x>>

\* ------------------------------------------------------------ arithmetic
Abs(x) == IF x < 0 THEN -x ELSE x

\* Mutant of PyRound: the quotient is cut off instead of rounded.
PyRound_Floor(num, den) == num \div den

\* Python's round(num/den) for den > 0: nearest integer, ties to even.
PyRound(num, den) ==
    LET q == num \div den
        r == num % den
    IN  IF 2 * r < den THEN q
        ELSE IF 2 * r > den THEN q + 1
        ELSE IF q % 2 = 0 THEN q ELSE q + 1

\* Python's int(x) for the number num/den, den > 0: truncation toward zero.
PyInt(num, den) ==
    IF num >= 0 THEN num \div den ELSE -((-num) \div den)

\* Mutant of InBounds: the lower bound is not checked.
InBounds_NoLower(v) == v <= PRICE_MAX * Scale

\* PRICE_MIN <= x <= PRICE_MAX for the number x = v / Scale.
InBounds(v) == PRICE_MIN * Scale <= v /\ v <= PRICE_MAX * Scale

\* ------------------------------------------------------------- sequences
RECURSIVE SumSeq(_)
SumSeq(s) == IF s = <<>> THEN 0 ELSE Head(s) + SumSeq(Tail(s))

RECURSIVE SetToSortedSeq(_)
SetToSortedSeq(S) ==
    IF S = {} THEN <<>>
    ELSE LET m == CHOOSE x \in S : \A y \in S : x <= y
         IN  <<m>> \o SetToSortedSeq(S \ {m})

Range(s) == {s[i] : i \in DOMAIN s}

MinOf(S) == CHOOSE x \in S : \A y \in S : x <= y
MaxOf(S) == CHOOSE x \in S : \A y \in S : x >= y

\* s[-k:] of Python.
LastK(s, k) == IF Len(s) <= k THEN s ELSE SubSeq(s, Len(s) - k + 1, Len(s))

\* ------------------------------------------------- binary floating point
\* round(n / d * 100, 1) is computed on IEEE doubles: the quotient and the
\* product are each rounded to 53 significant bits, and round(x, 1) gives
\* the decimal nearest to the double it is handed.  Away from a decimal tie
\* that is the rounding of the exact fraction; on a tie the two roundings
\* of the double decide.  A natural number is held as its bits, most
\* significant first, and a double as bits m and exponent e: m * 2^e.
MantissaBits == 53

RECURSIVE Bits(_)
Bits(n) == IF n = 0 THEN <<>> ELSE Append(Bits(n \div 2), n % 2)

\* x + y: bit i of the sum, counted from the least significant, takes a
\* carry when a lower bit has both addends set and every bit between it
\* and i has exactly one set.
AddBits(x, y) ==
    LET n        == (IF Len(x) > Len(y) THEN Len(x) ELSE Len(y)) + 1
        at(z, i) == IF i <= Len(z) THEN z[Len(z) + 1 - i] ELSE 0
        carry(i) == IF \E j \in 1..(i - 1) :
                            /\ at(x, j) = 1 /\ at(y, j) = 1
                            /\ \A k \in (j + 1)..(i - 1) : at(x, k) # at(y, k)
                    THEN 1 ELSE 0
        sum      == [i \in 1..n |->
                        (at(x, n + 1 - i) + at(y, n + 1 - i) + carry(n + 1 - i)) % 2]
    IN  IF sum[1] = 0 THEN Tail(sum) ELSE sum

ShiftL(x, k) == IF x = <<>> THEN <<>> ELSE x \o [i \in 1..k |-> 0]

\* Less than, equal or greater, as -1, 0, 1.
CmpBits(x, y) ==
    IF Len(x) # Len(y) THEN (IF Len(x) < Len(y) THEN -1 ELSE 1)
    ELSE IF x = y THEN 0
    ELSE LET i == CHOOSE k \in DOMAIN x :
                     x[k] # y[k] /\ \A j \in 1..(k - 1) : x[j] = y[j]
         IN  IF x[i] < y[i] THEN -1 ELSE 1

\* Round bits * 2^e, with something more below the last bit when sticky, to
\* MantissaBits bits: to nearest, ties to even.
RoundBits(bits, e, sticky) ==
    IF Len(bits) <= MantissaBits THEN [m |-> bits, e |-> e]
    ELSE LET m     == SubSeq(bits, 1, MantissaBits)
             guard == bits[MantissaBits + 1]
             rest  == \/ sticky
                      \/ \E i \in (MantissaBits + 2)..Len(bits) : bits[i] = 1
             up    == guard = 1 /\ (rest \/ m[MantissaBits] = 1)
         IN  [m |-> IF up THEN AddBits(m, <<1>>) ELSE m,
              e |-> e + Len(bits) - MantissaBits]

\* The double a / d for naturals a > 0 and d > 0, by long division: bits is
\* the quotient so far, r the remainder, e the exponent of the last bit.
RECURSIVE DivBits(_, _, _, _)
DivBits(bits, r, d, e) ==
    IF r = 0 \/ Len(bits) > MantissaBits THEN RoundBits(bits, e, r # 0)
    ELSE LET bit == IF 2 * r >= d THEN 1 ELSE 0
         IN  DivBits(IF bits = <<>> /\ bit = 0 THEN <<>> ELSE Append(bits, bit),
                     2 * r - bit * d, d, e - 1)

FloatDiv(a, d) == DivBits(Bits(a \div d), a % d, d, 0)

\* The double x * 100 (100 = 64 + 32 + 4).
FloatMul100(x) ==
    RoundBits(AddBits(AddBits(ShiftL(x.m, 6), ShiftL(x.m, 5)), ShiftL(x.m, 2)),
              x.e, FALSE)

\* The double x against the number w / 20, as -1, 0, 1 (20 = 16 + 4).
CmpTwentieths(x, w) ==
    LET x20 == AddBits(ShiftL(x.m, 4), ShiftL(x.m, 2))
    IN  IF x.e >= 0 THEN CmpBits(ShiftL(x20, x.e), Bits(w))
        ELSE CmpBits(x20, ShiftL(Bits(w), -x.e))

\* round(n / d * 100, 1) in tenths, for integers n and d > 0.
round_pct(n, d) ==
    LET a == Abs(n)
        k == (1000 * a) \div d
    IN  IF 2 * ((1000 * a) % d) # d THEN PyRound(1000 * n, d)
        ELSE LET c == CmpTwentieths(FloatMul100(FloatDiv(a, d)), 2 * k + 1)
                 t == IF c < 0 THEN k
                      ELSE IF c > 0 THEN k + 1
                      ELSE IF k % 2 = 0 THEN k ELSE k + 1
             IN  IF n < 0 THEN -t ELSE t

\* ---------------------------------------------------------- price helpers
\* pluck / regex_p keep a candidate only if PRICE_MIN <= p <= PRICE_MAX.
BoundsFilter(cands) == SelectSeq(cands, InBounds)

\* pstats(prices): (round(floor), round(median), n) of the deduplicated
\* prices, (None, None, 0) when there are none.
pstats(prices) ==
    IF prices = <<>> THEN [floor |-> None, median |-> None, count |-> 0]
    ELSE LET s == SetToSortedSeq(Range(prices))
             n == Len(s)
             \* med = medNum / medDen
             medNum == IF n % 2 = 1 THEN s[n \div 2 + 1]
                       ELSE s[n \div 2] + s[n \div 2 + 1]
             medDen == IF n % 2 = 1 THEN Scale ELSE 2 * Scale
         IN  [floor  |-> Some(PyRound(s[1], Scale)),
              median |-> Some(PyRound(medNum, medDen)),
              count  |-> n]

\* ok(f, m, c, src)
ok(f, m, c) == [floor |-> f, median |-> m, total_count |-> c]

\* Python truthiness of an optional number: not None and not 0.
Truthy(o) == o # None /\ o[1] # 0

\* ------------------------------------------------------------- platforms
\* The order run_scrape calls the scrapers in.
PlatformOrder == <<"stubhub", "seatgeek", "tickpick", "vividseats">>
PlatformNames == Range(PlatformOrder)

\* A fetched StubHub page: None (fetch failed), or the numbers found under
\* price-like keys of its embedded JSON (blobs) and the $ amounts of its
\* text (dollars), before the bounds filter.
\* scrape_stubhub(): the floor/median/count of the page, or None.
scrape_stubhub(page) ==
    IF page = None THEN None
    ELSE LET plucked == BoundsFilter(page[1].blobs)
             prices  == IF plucked = <<>> THEN BoundsFilter(page[1].dollars)
                        ELSE plucked
             st      == pstats(prices)
         IN  IF Truthy(st.floor)
             THEN Some(ok(st.floor[1], st.median[1], st.count))
             ELSE None

\* ------------------------------------------------------------------ files
\* A file is absent, truncated (opened with 'w', nothing flushed yet) or
\* holds a JSON document.
Absent == [kind |-> "absent"]
Truncated == [kind |-> "truncated"]
Json(doc) == [kind |-> "json", doc |-> doc]

\* strftime('%Y-%m-%d') of a timestamp.
DateOf(ts) == ts.day

\* Mutant of relay_lookup: the entry's date is not compared with today's.
relay_lookup_AnyDate(file, name, now) ==
    IF file.kind # "json" THEN None
    ELSE IF name \notin DOMAIN file.doc THEN None
    ELSE LET e == file.doc[name]
         IN  IF e.floor # 0 /\ e.median # 0
             THEN Some([floor |-> e.floor, median |-> e.median,
                        total_count |-> e.count])
             ELSE None

\* Mutant of relay_lookup: yesterday's entry is still accepted.
relay_lookup_Yesterday(file, name, now) ==
    IF file.kind # "json" THEN None
    ELSE IF name \notin DOMAIN file.doc THEN None
    ELSE LET e == file.doc[name]
         IN  IF e.date >= DateOf(now) - 1 /\ e.floor # 0 /\ e.median # 0
             THEN Some([floor |-> e.floor, median |-> e.median,
                        total_count |-> e.count])
             ELSE None

\* The relay-cache read shared by scrape_seatgeek, scrape_tickpick and
\* scrape_vividseats: the entry of `name` if the file parses and the entry
\* carries today's date and truthy floor and median; None otherwise
\* (FileNotFoundError and a JSON error are caught).
relay_lookup(file, name, now) ==
    IF file.kind # "json" THEN None
    ELSE IF name \notin DOMAIN file.doc THEN None
    ELSE LET e == file.doc[name]
         IN  IF e.date = DateOf(now) /\ e.floor # 0 /\ e.median # 0
             THEN Some([floor |-> e.floor, median |-> e.median,
                        total_count |-> e.count])
             ELSE None

scrape_seatgeek(file, now) == relay_lookup(file, "seatgeek", now)
scrape_tickpick(file, now) == relay_lookup(file, "tickpick", now)
scrape_vividseats(file, now) == relay_lookup(file, "vividseats", now)

\* ------------------------------------------------------------ aggregation
\* active = {k: v for k, v in platforms.items() if v}, as the names in
\* insertion order.
ActiveNames(platforms) ==
    SelectSeq(PlatformOrder, LAMBDA n : platforms[n] # None)

\* Mutant of cross_stats: the floor of the first active platform stands in
\* for the minimum.
cross_stats_FirstFloor(platforms) ==
    LET names   == ActiveNames(platforms)
        medians == [i \in DOMAIN names |-> platforms[names[i]][1].median]
    IN  IF medians = <<>> THEN [cross_median |-> None, cross_floor |-> None]
        ELSE [cross_median |-> Some(PyRound(SumSeq(medians), Len(medians))),
              cross_floor  |-> Some(platforms[names[1]][1].floor)]

\* cross_stats(active): (round(mean of medians), round(min of floors)).
cross_stats(platforms) ==
    LET names   == ActiveNames(platforms)
        medians == [i \in DOMAIN names |-> platforms[names[i]][1].median]
        floors  == [i \in DOMAIN names |-> platforms[names[i]][1].floor]
        meds    == SelectSeq(medians, LAMBDA m : m # 0)
        flrs    == SelectSeq(floors, LAMBDA f : f # 0)
    IN  IF meds = <<>> THEN [cross_median |-> None, cross_floor |-> None]
        ELSE [cross_median |-> Some(PyRound(SumSeq(meds), Len(meds))),
              cross_floor  |-> IF flrs = <<>> THEN None
                               ELSE Some(MinOf(Range(flrs)))]

\* The DailyRecord run_scrape builds from the platform results (lines
\* 292-304).  platform_spread_pct is in tenths of a percent.
MakeToday(platforms, now, now2) ==
    LET names == ActiveNames(platforms)
        cs    == cross_stats(platforms)
        meds  == {platforms[names[i]][1].median : i \in DOMAIN names}
        counts == [i \in DOMAIN names |-> platforms[names[i]][1].total_count]
    IN  [date |-> DateOf(now),
         timestamp |-> now2,
         cross_median |-> cs.cross_median,
         cross_floor |-> cs.cross_floor,
         total_inventory |-> SumSeq(counts),
         aisle_count |-> AisleCount,
         platform_spread_pct |->
             IF Len(names) >= 2 /\ Truthy(cs.cross_median)
             THEN round_pct(MaxOf(meds) - MinOf(meds), cs.cross_median[1])
             ELSE 0,
         platforms |-> [n \in Range(names) |-> platforms[n][1]]]

\* ------------------------------------------------------------ persistence
\* load_history(): the file's history, [] when the file is missing or does
\* not parse.
load_history(file) == IF file.kind = "json" THEN file.doc.history ELSE <<>>

\* list.sort(key=lambda x: x['date']): a stable sort by date.
RECURSIVE InsertByDate(_, _)
InsertByDate(s, h) ==
    IF s = <<>> THEN <<h>>
    ELSE IF s[Len(s)].date <= h.date THEN Append(s, h)
    ELSE Append(InsertByDate(SubSeq(s, 1, Len(s) - 1), h), s[Len(s)])

RECURSIVE SortByDate(_)
SortByDate(s) ==
    IF s = <<>> THEN <<>>
    ELSE InsertByDate(SortByDate(SubSeq(s, 1, Len(s) - 1)), s[Len(s)])

\* Mutants of Upsert: without the sort; keeping the stored record of
\* today's date instead of replacing it.
Upsert_NoSort(loaded, today) ==
    Append(SelectSeq(loaded, LAMBDA h : h.date # today.date), today)

Upsert_KeepOld(loaded, today) ==
    IF \E i \in DOMAIN loaded : loaded[i].date = today.date
    THEN SortByDate(loaded)
    ELSE SortByDate(Append(loaded, today))

\* Lines 240-242: drop the records of today's date, append, sort.
Upsert(loaded, today) ==
    SortByDate(Append(SelectSeq(loaded, LAMBDA h : h.date # today.date), today))

\* Lines 243-261: the trends of a history.  Slopes and percentages are in
\* tenths (round(x, 1)).
Trends(history) ==
    LET withMed == SelectSeq(history, LAMBDA h : Truthy(h.cross_median))
        withFlr == SelectSeq(history, LAMBDA h : Truthy(h.cross_floor))
        withInv == SelectSeq(history, LAMBDA h : h.total_inventory # 0)
        medians == [i \in DOMAIN withMed |-> withMed[i].cross_median[1]]
        floors  == [i \in DOMAIN withFlr |-> withFlr[i].cross_floor[1]]
        invs    == [i \in DOMAIN withInv |-> withInv[i].total_inventory]
        nm      == Len(medians)
        nf      == Len(floors)
        ni      == Len(invs)
        prior   == IF ni >= 2 THEN Some(invs[ni - 1]) ELSE None
    IN  [median_7d_slope |->
             IF nm >= 2 THEN PyRound((medians[nm] - medians[nm - 1]) * 10, 7) ELSE 0,
         floor_7d_accel |->
             IF nf >= 2 THEN (floors[nf] - floors[nf - 1]) * 10 ELSE 0,
         inventory_wow_pct |->
             IF Truthy(prior)
             THEN Some(round_pct(invs[ni] - prior[1], prior[1]))
             ELSE None,
         prior_inventory |-> prior,
         medians_7d |-> LastK(medians, 7),
         floors_7d |-> LastK(floors, 7),
         inventory_7d |-> LastK(invs, 7)]

\* The document save_data writes (lines 247-263).
MakeOut(loaded, today, now) ==
    LET history == Upsert(loaded, today)
    IN  [meta |-> [generated |-> now],
         today |-> today,
         trends |-> Trends(history),
         history |-> history]

\* ------------------------------------------------------------------ state
VARIABLES
    state,      \* the module-level dict `state` (line 25)
    dataFile,   \* ticket_data.json
    relayFile,  \* relay_data.json
    clock,      \* datetime.now(timezone.utc)
    thr,        \* the run_scrape threads: position and locals of each
    http,       \* the HTTP server thread: idle, or inside do_POST's write
    req,        \* the request the step just taken was handling, if any
    resp,       \* the response sent by the step just taken, if any
    nCycles     \* scrape threads started so far

vars == <<state, dataFile, relayFile, clock, thr, http, req, resp, nCycles>>

\* The run_scrape threads alive at one time: a thread that has returned
\* frees its place for the next one.
Threads == {1, 2}

NoPlatforms == [n \in PlatformNames |-> None]
Idle == [pc |-> "idle", platforms |-> NoPlatforms, today |-> None, out |-> None]

NoResponse == [code |-> 0, body |-> [status |-> "none"]]
jresp(data, status) == [code |-> status, body |-> data]

Init ==
    /\ state = [running |-> FALSE, last_success |-> None,
                last_error |-> None, started_at |-> None]
    /\ dataFile = Absent
    /\ relayFile = Absent
    /\ clock = [day |-> 0]
    /\ thr = [t \in Threads |-> Idle]
    /\ http = [pc |-> "idle"]
    /\ req = None
    /\ resp = NoResponse
    /\ nCycles = 0

\* ------------------------------------------------------------------ clock
\* What a second datetime.now() of a step may read when the first read now:
\* the same day, or the next one when midnight falls between the two.
LaterReads(now) ==
    {now} \cup (IF now.day < MaxDay THEN {[day |-> now.day + 1]} ELSE {})

Tick ==
    /\ clock.day < MaxDay
    /\ clock' = [day |-> clock.day + 1]
    /\ req' = None
    /\ resp' = NoResponse
    /\ UNCHANGED <<state, dataFile, relayFile, thr, http, nCycles>>

\* ------------------------------------------------------------- run_scrape
\* Inputs: what a fetch of the StubHub page may return.
Pages ==
    { None,
      Some([blobs |-> <<15000 * Scale>>,
            dollars |-> <<801 * Scale, 800 * Scale + 1>>]) }

\* Line 273: the thread marks the cycle as running.
ScrapeStart(t) ==
    /\ thr[t].pc = "start"
    /\ state' = [state EXCEPT !.running = TRUE,
                              !.started_at = Some(clock),
                              !.last_error = None]
    /\ thr' = [thr EXCEPT ![t].pc = "stubhub"]
    /\ req' = None
    /\ resp' = NoResponse
    /\ UNCHANGED <<dataFile, relayFile, clock, http, nCycles>>

\* The first turn of the loop of lines 277-284: the fetch of the StubHub
\* page returns (or fails) and platforms['stubhub'] is assigned.  The fetch
\* waits on the network; it reads no shared state.
CallStubhub(t) ==
    /\ thr[t].pc = "stubhub"
    /\ \E page \in Pages :
         thr' = [thr EXCEPT ![t].platforms["stubhub"] = scrape_stubhub(page),
                            ![t].pc = "seatgeek"]
    /\ req' = None
    /\ resp' = NoResponse
    /\ UNCHANGED <<state, dataFile, relayFile, clock, http, nCycles>>

\* Lines 277-284, the turns of seatgeek, tickpick and vividseats.
CallSeatgeek(t) ==
    /\ thr[t].pc = "seatgeek"
    /\ thr' = [thr EXCEPT ![t].platforms["seatgeek"] = scrape_seatgeek(relayFile, clock),
                          ![t].pc = "tickpick"]
    /\ req' = None
    /\ resp' = NoResponse
    /\ UNCHANGED <<state, dataFile, relayFile, clock, http, nCycles>>

CallTickpick(t) ==
    /\ thr[t].pc = "tickpick"
    /\ thr' = [thr EXCEPT ![t].platforms["tickpick"] = scrape_tickpick(relayFile, clock),
                          ![t].pc = "vividseats"]
    /\ req' = None
    /\ resp' = NoResponse
    /\ UNCHANGED <<state, dataFile, relayFile, clock, http, nCycles>>

CallVividseats(t) ==
    /\ thr[t].pc = "vividseats"
    /\ thr' = [thr EXCEPT ![t].platforms["vividseats"] = scrape_vividseats(relayFile, clock),
                          ![t].pc = "aggregate"]
    /\ req' = None
    /\ resp' = NoResponse
    /\ UNCHANGED <<state, dataFile, relayFile, clock, http, nCycles>>

\* Mutant of NoneActive: the cycle goes on with an empty active set.
NoneActive_Never(platforms) == FALSE

\* Mutant of NoneActive: one inactive platform is enough to fail the cycle.
NoneActive_Any(platforms) == \E n \in PlatformNames : platforms[n] = None

\* `not active`, line 289.
NoneActive(platforms) == ActiveNames(platforms) = <<>>

\* Lines 286-304: raise when nothing is active, else build today's record.
\* The record's date (line 298) and its timestamp (line 299) are two reads
\* of the clock.
Aggregate(t) ==
    /\ thr[t].pc = "aggregate"
    /\ IF NoneActive(thr[t].platforms)
       THEN /\ thr' = [thr EXCEPT ![t].pc = "except",
                                  ![t].platforms = NoPlatforms]
            /\ clock' = clock
       ELSE \E now2 \in LaterReads(clock) :
                /\ thr' = [thr EXCEPT ![t].today =
                                          Some(MakeToday(thr[t].platforms, clock, now2)),
                                      ![t].platforms = NoPlatforms,
                                      ![t].pc = "save_load"]
                /\ clock' = now2
    /\ req' = None
    /\ resp' = NoResponse
    /\ UNCHANGED <<state, dataFile, relayFile, http, nCycles>>

\* save_data, lines 240-263: read the history and build the document.
SaveLoad(t) ==
    /\ thr[t].pc = "save_load"
    /\ thr' = [thr EXCEPT ![t].out = Some(MakeOut(load_history(dataFile),
                                                   thr[t].today[1], clock)),
                          ![t].today = None,
                          ![t].pc = "save_open"]
    /\ req' = None
    /\ resp' = NoResponse
    /\ UNCHANGED <<state, dataFile, relayFile, clock, http, nCycles>>

\* Line 264: open(DATA_FILE, 'w') truncates the file.
SaveOpen(t) ==
    /\ thr[t].pc = "save_open"
    /\ dataFile' = Truncated
    /\ thr' = [thr EXCEPT ![t].pc = "save_dump"]
    /\ req' = None
    /\ resp' = NoResponse
    /\ UNCHANGED <<state, relayFile, clock, http, nCycles>>

\* Line 265: json.dump and the close that flushes it.  The write starts at
\* offset 0 of whatever the file holds by then: over another writer's
\* longer document it leaves that document's tail behind.
SaveDump(t) ==
    /\ thr[t].pc = "save_dump"
    /\ \/ dataFile' = Json(thr[t].out[1])
       \/ /\ dataFile.kind = "json"
          /\ dataFile' = [kind |-> "garbled"]
    /\ thr' = [thr EXCEPT ![t].pc = "success", ![t].out = None]
    /\ req' = None
    /\ resp' = NoResponse
    /\ UNCHANGED <<state, relayFile, clock, http, nCycles>>

\* Line 306.
Success(t) ==
    /\ thr[t].pc = "success"
    /\ state' = [state EXCEPT !.last_success = Some(clock)]
    /\ thr' = [thr EXCEPT ![t].pc = "finally"]
    /\ req' = None
    /\ resp' = NoResponse
    /\ UNCHANGED <<dataFile, relayFile, clock, http, nCycles>>

\* Lines 309-311.
Except(t) ==
    /\ thr[t].pc = "except"
    /\ state' = [state EXCEPT !.last_error = Some("All platforms returned no data.")]
    /\ thr' = [thr EXCEPT ![t].pc = "finally"]
    /\ req' = None
    /\ resp' = NoResponse
    /\ UNCHANGED <<dataFile, relayFile, clock, http, nCycles>>

\* Lines 312-313.
Finally(t) ==
    /\ thr[t].pc = "finally"
    /\ state' = [state EXCEPT !.running = FALSE]
    /\ thr' = [thr EXCEPT ![t] = Idle]
    /\ req' = None
    /\ resp' = NoResponse
    /\ UNCHANGED <<dataFile, relayFile, clock, http, nCycles>>

\* ----------------------------------------------------------- GET /scrape
QueryTokens == {SCRAPE_TOKEN, ""}

\* Mutant of AlreadyRunning: the flag is not consulted.
AlreadyRunning_Never(st) == FALSE

\* state['running'], line 443.
AlreadyRunning(st) == st.running

\* Lines 440-446.
Trigger(token) ==
    /\ http.pc = "idle"
    /\ req' = Some([path |-> "/scrape", qsToken |-> token])
    /\ IF token # SCRAPE_TOKEN
       THEN /\ resp' = jresp([error |-> "unauthorized"], 401)
            /\ UNCHANGED <<thr, nCycles>>
       ELSE IF AlreadyRunning(state)
       THEN /\ resp' = jresp([status |-> "already_running",
                              started_at |-> state.started_at], 200)
            /\ UNCHANGED <<thr, nCycles>>
       ELSE /\ nCycles < MaxCycles
            /\ nCycles' = nCycles + 1
            /\ \E t \in Threads :
                 /\ thr[t].pc = "idle"
                 /\ \A u \in Threads : u < t => thr[u].pc # "idle"
                 /\ thr' = [thr EXCEPT ![t].pc = "start"]
            /\ resp' = jresp([status |-> "started"], 200)
    /\ UNCHANGED <<state, dataFile, relayFile, clock, http>>

\* ----------------------------------------------------------- POST /relay
\* body.get('platform', '').lower().strip() on the platform strings the
\* requests of this model carry.
lower_strip(raw) ==
    CASE raw = "SeatGeek"   -> "seatgeek"
      [] raw = " tickpick " -> "tickpick"
      [] OTHER              -> raw

\* A request: the query-string token and the JSON body (None: not JSON).  A
\* body field is None when the key is missing, else <<value>>; numbers are
\* scaled by Scale.
Bodies(tokens, platforms, floors, medians, counts) ==
    {Some(b) : b \in [token : tokens, platform : platforms, floor : floors,
                      median : medians, count : counts]}

Requests(tokens, bodies) ==
    [path : {"/relay"}, qsToken : tokens, body : bodies]

\* The request of Spec: accepted, with a floor above its median.
ScrapeRelayRequests ==
    Requests({SCRAPE_TOKEN},
             Bodies({None}, {Some("SeatGeek")}, {Some(1000 * Scale + 1)},
                    {Some(900 * Scale)}, {None}))

\* The requests of SpecCycle: one accepted request for each platform the
\* relay form offers.
CycleRelayRequests ==
    Requests({SCRAPE_TOKEN},
             Bodies({None},
                    {Some("SeatGeek"), Some(" tickpick "), Some("vividseats"),
                     Some("stubhub")},
                    {Some(1000 * Scale + 1)}, {Some(900 * Scale)}, {None}))

\* The requests of SpecRelay: every way to be rejected, and accepted
\* requests for two platforms with whole and fractional numbers, with and
\* without a count, with the token in the query string or in the body.
RelayRequests ==
    Requests(QueryTokens, {None})
    \cup
    Requests({SCRAPE_TOKEN},
             Bodies({None},
                    {None, Some("SeatGeek"), Some(" tickpick ")},
                    {None, Some(0), Some(PRICE_MIN * Scale - 1), Some(PRICE_MIN * Scale),
                     Some(1000 * Scale + 1), Some(PRICE_MAX * Scale + 1)},
                    {None, Some(PRICE_MIN * Scale - 1), Some(PRICE_MAX * Scale),
                     Some(PRICE_MAX * Scale + 1)},
                    {None}))
    \cup
    Requests(QueryTokens,
             Bodies({None, Some(SCRAPE_TOKEN), Some("guess")}, {Some("SeatGeek")},
                    {Some(1000 * Scale + 1)}, {Some(900 * Scale)},
                    {Some(0), Some(3 * Scale + 1)}))

\* dict.get(key, default) of an optional field.
Get(field, default) == IF field = None THEN default ELSE field[1]

\* Lines 361-378: the response that rejects the request, None if it passes.
RelayReject(r) ==
    IF r.body = None THEN Some(jresp([error |-> "invalid JSON body"], 400))
    ELSE LET body == r.body[1] IN
    IF Get(body.token, r.qsToken) # SCRAPE_TOKEN
    THEN Some(jresp([error |-> "unauthorized"], 401))
    ELSE IF \/ lower_strip(Get(body.platform, "")) = ""
            \/ ~Truthy(body.floor)
            \/ ~Truthy(body.median)
    THEN Some(jresp([error |-> "required: platform, floor, median"], 400))
    ELSE IF ~(InBounds(body.floor[1]) /\ InBounds(body.median[1]))
    THEN Some(jresp([error |-> "prices must be between $800 and $12000"], 400))
    ELSE None

\* Lines 387-393: the entry stored for an accepted request.  Its date
\* (line 391) and its timestamp (line 392) are two reads of the clock.
RelayEntry(body, now, now2) ==
    [floor     |-> PyInt(body.floor[1], Scale),
     median    |-> PyInt(body.median[1], Scale),
     count     |-> IF body.count = None THEN DefaultCount
                   ELSE PyInt(body.count[1], Scale),
     date      |-> DateOf(now),
     timestamp |-> now2]

\* Mutant of RelayUpsert: the document is rebuilt with the new entry only.
RelayUpsert_Clobber(file, body, now, now2) ==
    LET name == lower_strip(Get(body.platform, ""))
    IN  [n \in {name} |-> RelayEntry(body, now, now2)]

\* Lines 381-393: the relay document after the upsert.
RelayUpsert(file, body, now, now2) ==
    LET old  == IF file.kind = "json" THEN file.doc ELSE <<>>
        name == lower_strip(Get(body.platform, ""))
    IN  [n \in DOMAIN old \cup {name} |->
            IF n = name THEN RelayEntry(body, now, now2) ELSE old[n]]

\* do_POST up to line 395: reject, or build the document and open the
\* file for writing, which truncates it.
RelayPost(r) ==
    /\ http.pc = "idle"
    /\ req' = Some(r)
    /\ IF RelayReject(r) # None
       THEN /\ resp' = RelayReject(r)[1]
            /\ UNCHANGED <<relayFile, http, clock>>
       ELSE \E now2 \in LaterReads(clock) :
                /\ relayFile' = Truncated
                /\ http' = [pc |-> "relay_dump", request |-> r,
                            relay |-> RelayUpsert(relayFile, r.body[1], clock, now2)]
                /\ resp' = NoResponse
                /\ clock' = now2
    /\ UNCHANGED <<state, dataFile, thr, nCycles>>

\* Lines 396-399: json.dump, close, respond.
RelayDump ==
    /\ http.pc = "relay_dump"
    /\ relayFile' = Json(http.relay)
    /\ req' = Some(http.request)
    /\ resp' = jresp([status |-> "saved",
                      platform |-> lower_strip(Get(http.request.body[1].platform, ""))],
                     200)
    /\ http' = [pc |-> "idle"]
    /\ UNCHANGED <<state, dataFile, clock, thr, nCycles>>

\* ---------------------------------------------------------- specification
Next ==
    \/ Tick
    \/ Trigger(SCRAPE_TOKEN)
    \/ \E r \in ScrapeRelayRequests : RelayPost(r)
    \/ RelayDump
    \/ \E t \in Threads :
         \/ ScrapeStart(t)
         \/ CallStubhub(t)
         \/ CallSeatgeek(t)
         \/ CallTickpick(t)
         \/ CallVividseats(t)
         \/ Aggregate(t)
         \/ SaveLoad(t)
         \/ SaveOpen(t)
         \/ SaveDump(t)
         \/ Success(t)
         \/ Except(t)
         \/ Finally(t)

Spec == Init /\ [][Next]_vars

\* The /relay handler alone, on a richer set of requests.
NextRelay ==
    \/ Tick
    \/ \E r \in RelayRequests : RelayPost(r)
    \/ RelayDump

SpecRelay == Init /\ [][NextRelay]_vars

\* One scrape cycle, from the state the first /scrape request leaves,
\* against relay requests for every platform.
InitCycle ==
    /\ state = [running |-> FALSE, last_success |-> None,
                last_error |-> None, started_at |-> None]
    /\ dataFile = Absent
    /\ relayFile = Absent
    /\ clock = [day |-> 0]
    /\ thr = [t \in Threads |-> IF t = 1 THEN [Idle EXCEPT !.pc = "start"] ELSE Idle]
    /\ http = [pc |-> "idle"]
    /\ req = Some([path |-> "/scrape", qsToken |-> SCRAPE_TOKEN])
    /\ resp = jresp([status |-> "started"], 200)
    /\ nCycles = 1

NextCycle ==
    \/ Tick
    \/ \E r \in CycleRelayRequests : RelayPost(r)
    \/ RelayDump
    \/ \E t \in Threads :
         \/ ScrapeStart(t)
         \/ CallStubhub(t)
         \/ CallSeatgeek(t)
         \/ CallTickpick(t)
         \/ CallVividseats(t)
         \/ Aggregate(t)
         \/ SaveLoad(t)
         \/ SaveOpen(t)
         \/ SaveDump(t)
         \/ Success(t)
         \/ Except(t)
         \/ Finally(t)

SpecCycle == InitCycle /\ [][NextCycle]_vars

\* ------------------------------------------------------------------ claims
StatusOf(r) == IF "status" \in DOMAIN r.body THEN r.body.status ELSE ""
IsTrigger(q) == q # None /\ q[1].path = "/scrape"
IsRelay(q) == q # None /\ q[1].path = "/relay"

\* A thread is executing run_scrape: it has run line 273 and has not yet
\* left the finally block.
InProgress(t) == thr[t].pc \notin {"idle", "start"}

\* C1: at most one run_scrape execution is in progress at any time, for
\* every interleaving of /scrape requests with the scrape threads.
C1_MutualExclusion == Cardinality({t \in Threads : InProgress(t)}) <= 1

\* C2: an authorized /scrape request handled while state['running'] is true
\* answers already_running with the stored started_at, starts no thread and
\* leaves ScrapeState, both files and every thread as they were.
C2_AlreadyRunningNoOp ==
    [][(IsTrigger(req') /\ req'[1].qsToken = SCRAPE_TOKEN /\ state.running)
         => /\ resp' = jresp([status |-> "already_running",
                              started_at |-> state.started_at], 200)
            /\ UNCHANGED <<state, dataFile, relayFile, clock, thr, http, nCycles>>]_vars

C2_Witness ==
    /\ IsTrigger(req)
    /\ StatusOf(resp) = "already_running"
    /\ state.running
    /\ resp.body.started_at = state.started_at
    /\ \E t \in Threads : InProgress(t)

\* C3: the persisted history holds at most one record per date and is
\* sorted strictly ascending by date.
StrictlyAscending(h) == \A i, j \in DOMAIN h : i < j => h[i].date < h[j].date

C3_HistorySorted ==
    dataFile.kind = "json" => StrictlyAscending(dataFile.doc.history)

\* Two cycles on different days have saved, the later one after a record of
\* its own date was already stored.
C3_Witness ==
    /\ dataFile.kind = "json"
    /\ Len(dataFile.doc.history) = 2
    /\ nCycles = MaxCycles
    /\ \A t \in Threads : thr[t].pc = "idle"

\* C4: a save writes exactly one record of its date, the record it was
\* called with, whatever record of that date was stored before: of two
\* saves with the same date the second one's record is the one kept.
RecordsOf(h, d) == SelectSeq(h, LAMBDA r : r.date = d)

C4_LastWriteWins ==
    [][\A t \in Threads :
         (thr[t].pc = "save_dump" /\ thr'[t].pc = "success" /\ dataFile'.kind = "json")
           => /\ dataFile'.doc.today = thr[t].out[1].today
              /\ RecordsOf(dataFile'.doc.history, thr[t].out[1].today.date)
                   = <<thr[t].out[1].today>>]_vars

\* A second save for day 0 has just returned (last_success tells of the
\* first): the history holds one record, the one just written.
C4_Witness ==
    /\ \E t \in Threads : thr[t].pc = "success"
    /\ state.last_success # None
    /\ clock.day = 0
    /\ dataFile.kind = "json"
    /\ dataFile.doc.history = <<dataFile.doc.today>>

\* C5: a cycle whose scrapers all returned no data builds no record and
\* goes to the except clause without touching ScrapeState or the history
\* file; the except clause sets last_error and leaves last_success and the
\* file alone; the finally clause sets running to false.
Moved(t) == thr'[t] # thr[t]

C5_TotalFailure ==
    [][\A t \in Threads :
         /\ (thr[t].pc = "aggregate" /\ ActiveNames(thr[t].platforms) = <<>> /\ Moved(t))
              => /\ thr'[t].pc = "except"
                 /\ thr'[t].today = None /\ thr'[t].out = None
                 /\ UNCHANGED <<state, dataFile>>
         /\ (thr'[t].pc = "except" /\ Moved(t))
              => thr[t].pc = "aggregate" /\ ActiveNames(thr[t].platforms) = <<>>
         /\ (thr[t].pc = "except" /\ Moved(t))
              => /\ thr'[t].pc = "finally"
                 /\ state'.last_error # None
                 /\ state'.last_success = state.last_success
                 /\ dataFile' = dataFile
         /\ (thr[t].pc = "finally" /\ Moved(t))
              => /\ thr'[t].pc = "idle"
                 /\ state'.running = FALSE
                 /\ state'.last_error = state.last_error
                 /\ state'.last_success = state.last_success
                 /\ dataFile' = dataFile]_vars

\* After a cycle that saved, a cycle with no active platform has ended: the
\* error is recorded and the history is still there.
C5_Witness ==
    /\ nCycles = 2
    /\ \A t \in Threads : thr[t].pc = "idle"
    /\ state.last_error # None
    /\ state.last_success # None
    /\ ~state.running
    /\ dataFile.kind = "json"

\* C6: a /relay request whose platform, floor or median is missing, or
\* whose floor or median is outside [PRICE_MIN, PRICE_MAX], is answered
\* with an error and leaves the relay file as it was.
OutOfRange(v) == v < PRICE_MIN * Scale \/ v > PRICE_MAX * Scale

Defective(r) ==
    /\ r.body # None
    /\ LET b == r.body[1]
       IN  \/ b.platform = None
           \/ b.floor = None
           \/ b.median = None
           \/ (b.floor # None /\ OutOfRange(b.floor[1]))
           \/ (b.median # None /\ OutOfRange(b.median[1]))

C6_RejectedUnchanged ==
    [][(IsRelay(req') /\ http.pc = "idle" /\ Defective(req'[1]))
         => /\ resp'.code \in {400, 401}
            /\ "error" \in DOMAIN resp'.body
            /\ relayFile' = relayFile
            /\ http' = http]_vars

\* A request with a floor just below PRICE_MIN was rejected while the file
\* held entries.
C6_Witness ==
    /\ IsRelay(req)
    /\ req[1].body # None
    /\ req[1].body[1].platform # None
    /\ req[1].body[1].floor = Some(PRICE_MIN * Scale - 1)
    /\ req[1].body[1].median = Some(PRICE_MAX * Scale)
    /\ resp.code = 400
    /\ relayFile.kind = "json"

\* C7: a relay scraper returns a result only if the relay file holds an
\* entry of its platform whose date is the UTC date at the read, and then
\* the result is that entry's floor, median and count.
RelayReaders == {"seatgeek", "tickpick", "vividseats"}

C7_RelayDateScoped ==
    [][\A t \in Threads : \A name \in RelayReaders :
         (thr[t].pc = name /\ Moved(t) /\ thr'[t].platforms[name] # None)
           => /\ relayFile.kind = "json"
              /\ name \in DOMAIN relayFile.doc
              /\ relayFile.doc[name].date = DateOf(clock)
              /\ thr'[t].platforms[name][1].floor = relayFile.doc[name].floor
              /\ thr'[t].platforms[name][1].median = relayFile.doc[name].median]_vars

\* On day 1 every relay scraper has read a file whose entries are all dated
\* day 0, and returned nothing.
C7_Witness ==
    /\ clock.day = 1
    /\ thr[1].pc = "aggregate"
    /\ http.pc = "idle"
    /\ relayFile.kind = "json"
    /\ RelayReaders \subseteq DOMAIN relayFile.doc
    /\ \A name \in RelayReaders :
         relayFile.doc[name].date = 0 /\ thr[1].platforms[name] = None

\* C8 (as stated): an accepted request stores exactly its floor, median and
\* count under its platform, dated today, and leaves the other entries.
OldRelay == IF relayFile.kind = "json" THEN relayFile.doc ELSE <<>>

C8_Original ==
    [][(http.pc = "idle" /\ http'.pc = "relay_dump")
         => LET b == req'[1].body[1]
                name == lower_strip(b.platform[1])
                e == http'.relay[name]
            IN  /\ e.floor * Scale = b.floor[1]
                /\ e.median * Scale = b.median[1]
                /\ b.count # None => e.count * Scale = b.count[1]
                /\ e.date = DateOf(clock)
                /\ \A n \in DOMAIN OldRelay \ {name} : http'.relay[n] = OldRelay[n]]_vars

\* C8 (amended): an accepted request stores the integer parts of its floor,
\* median and count (10 without a count) under its lower-cased, stripped
\* platform, dated with the day read while it is handled; the other
\* entries are unchanged, and the file written is that document.
IntPartOf(n, v) == n * Scale <= v /\ v < (n + 1) * Scale

C8_RelayUpsert ==
    [][/\ (http.pc = "idle" /\ http'.pc = "relay_dump")
           => LET b == req'[1].body[1]
                  name == lower_strip(b.platform[1])
                  e == http'.relay[name]
              IN  /\ IntPartOf(e.floor, b.floor[1])
                  /\ IntPartOf(e.median, b.median[1])
                  /\ IF b.count = None THEN e.count = DefaultCount
                     ELSE IntPartOf(e.count, b.count[1])
                  /\ e.date = DateOf(clock)
                  /\ DOMAIN http'.relay = DOMAIN OldRelay \cup {name}
                  /\ \A n \in DOMAIN OldRelay \ {name} : http'.relay[n] = OldRelay[n]
       /\ (http.pc = "relay_dump" /\ http'.pc = "idle")
           => relayFile' = Json(http.relay)]_vars

\* A request with floor 1000.5 has been stored as 1000 beside an entry of
\* the other platform.
C8_Witness ==
    /\ StatusOf(resp) = "saved"
    /\ req[1].body[1].floor = Some(1000 * Scale + 1)
    /\ relayFile.kind = "json"
    /\ DOMAIN relayFile.doc = {"seatgeek", "tickpick"}
    /\ relayFile.doc[resp.body.platform].floor = 1000

\* C9 (as stated): while a cycle is running, handling a relay request does
\* not change what a platform read still to come in that cycle returns.
PendingReads(t) ==
    CASE thr[t].pc = "seatgeek"   -> {"seatgeek", "tickpick", "vividseats"}
      [] thr[t].pc = "tickpick"   -> {"tickpick", "vividseats"}
      [] thr[t].pc = "vividseats" -> {"vividseats"}
      [] OTHER                    -> {}

C9_Original ==
    [][IsRelay(req')
         => \A t \in Threads : \A name \in PendingReads(t) :
              relay_lookup(relayFile', name, clock) = relay_lookup(relayFile, name, clock)]_vars

\* C9 (amended): handling a relay request changes neither the results a
\* running cycle has collected nor its record, ScrapeState or the history
\* file; each relay scraper returns what the relay file holds when it
\* reads: the entry of its platform if it is dated today, else nothing.
C9_ReadAtCallTime ==
    [][/\ IsRelay(req') => UNCHANGED <<thr, state, dataFile>>
       /\ \A t \in Threads : \A name \in RelayReaders :
            (thr[t].pc = name /\ Moved(t))
              => thr'[t].platforms[name] =
                   IF /\ relayFile.kind = "json"
                      /\ name \in DOMAIN relayFile.doc
                      /\ relayFile.doc[name].date = DateOf(clock)
                   THEN Some([floor |-> relayFile.doc[name].floor,
                              median |-> relayFile.doc[name].median,
                              total_count |-> relayFile.doc[name].count])
                   ELSE None]_vars

\* The running cycle read seatgeek and got nothing, then a request for
\* seatgeek and one for tickpick were stored, and it read tickpick's.
C9_Witness ==
    /\ thr[1].pc = "vividseats"
    /\ state.running
    /\ clock.day = 0
    /\ relayFile.kind = "json"
    /\ {"seatgeek", "tickpick"} \subseteq DOMAIN relayFile.doc
    /\ thr[1].platforms["seatgeek"] = None
    /\ thr[1].platforms["tickpick"] # None

\* C10: every platform result a scraper returned, and every platform result
\* of a persisted record, has floor <= median.
FloorLeMedian(p) == p.floor <= p.median

C10_FloorLeMedian ==
    /\ \A t \in Threads : \A n \in PlatformNames :
         thr[t].platforms[n] # None => FloorLeMedian(thr[t].platforms[n][1])
    /\ dataFile.kind = "json"
         => \A i \in DOMAIN dataFile.doc.history :
              \A n \in DOMAIN dataFile.doc.history[i].platforms :
                FloorLeMedian(dataFile.doc.history[i].platforms[n])

\* C11: whenever a platform's scraper is called while the relay file holds
\* an entry of that platform dated today with a floor and a median, the
\* scraper returns a result (the platform is active); for a platform with
\* no direct strategy the result is that entry's floor and median.
ReadPc(name) == name

ValidEntry(file, name, now) ==
    /\ file.kind = "json"
    /\ name \in DOMAIN file.doc
    /\ file.doc[name].date = DateOf(now)
    /\ file.doc[name].floor # 0
    /\ file.doc[name].median # 0

C11_RelayFallback ==
    [][\A t \in Threads : \A name \in PlatformNames :
         (thr[t].pc = ReadPc(name) /\ Moved(t) /\ ValidEntry(relayFile, name, clock))
           => /\ thr'[t].platforms[name] # None
              /\ name \in RelayReaders
                   => /\ thr'[t].platforms[name][1].floor = relayFile.doc[name].floor
                      /\ thr'[t].platforms[name][1].median = relayFile.doc[name].median]_vars

\* C12: every DailyRecord built by a cycle or persisted in the history file
\* has a non-empty platforms map and a cross_median and a cross_floor that
\* are not null.
Aggregated(r) ==
    /\ DOMAIN r.platforms # {}
    /\ r.cross_median # None
    /\ r.cross_floor # None

C12_NonEmptyActive ==
    /\ \A t \in Threads :
         /\ thr[t].today # None => Aggregated(thr[t].today[1])
         /\ thr[t].out # None
              => /\ Aggregated(thr[t].out[1].today)
                 /\ \A i \in DOMAIN thr[t].out[1].history :
                      Aggregated(thr[t].out[1].history[i])
    /\ dataFile.kind = "json"
         => /\ Aggregated(dataFile.doc.today)
            /\ \A i \in DOMAIN dataFile.doc.history :
                 Aggregated(dataFile.doc.history[i])

\* A record aggregated from two active platforms has been persisted.
C12_Witness ==
    /\ dataFile.kind = "json"
    /\ Len(dataFile.doc.history) = 1
    /\ DOMAIN dataFile.doc.history[1].platforms = {"stubhub", "seatgeek"}
    /\ dataFile.doc.history[1].cross_median # None

\* ------------------------------------------- the server with every handler
\* Number of scrape cycles started in one behaviour of SpecServe.
MaxServeCycles == 1

\* Mutant of StatusGet: reporting the last error also clears it.
StatusGet_ClearsError ==
    /\ http.pc = "idle"
    /\ req' = Some([path |-> "/status", qsToken |-> ""])
    /\ resp' = jresp([running |-> state.running,
                      last_error |-> state.last_error], 200)
    /\ state' = [state EXCEPT !.last_error = None]
    /\ UNCHANGED <<dataFile, relayFile, clock, thr, http, nCycles>>

\* GET /status, lines 422-438: ScrapeState and, when the relay file parses,
\* the date and median of each of its entries.
StatusGet ==
    /\ http.pc = "idle"
    /\ req' = Some([path |-> "/status", qsToken |-> ""])
    /\ resp' = jresp([running |-> state.running,
                      last_success |-> state.last_success,
                      last_error |-> state.last_error,
                      started_at |-> state.started_at,
                      relay_cache |->
                          IF relayFile.kind = "json"
                          THEN [n \in DOMAIN relayFile.doc |->
                                   [date |-> relayFile.doc[n].date,
                                    median |-> relayFile.doc[n].median]]
                          ELSE <<>>], 200)
    /\ UNCHANGED <<state, dataFile, relayFile, clock, thr, http, nCycles>>

\* GET /data, lines 448-458: the bytes of the history file as they are, or
\* 404 when the file does not exist.
DataGet ==
    /\ http.pc = "idle"
    /\ req' = Some([path |-> "/data", qsToken |-> ""])
    /\ resp' = IF dataFile = Absent
               THEN jresp([error |-> "no data yet"], 404)
               ELSE jresp(dataFile, 200)
    /\ UNCHANGED <<state, dataFile, relayFile, clock, thr, http, nCycles>>

\* Mutant of SaveRaise: the exception escapes run_scrape, past the except
\* and finally clauses.
SaveRaise_Escapes(t) ==
    /\ thr[t].pc = "save_open"
    /\ thr' = [thr EXCEPT ![t] = Idle]
    /\ req' = None
    /\ resp' = NoResponse
    /\ UNCHANGED <<state, dataFile, relayFile, clock, http, nCycles>>

\* Line 264 raising OSError (the file cannot be opened for writing), caught
\* by the except clause of lines 309-311.
SaveRaise(t) ==
    /\ thr[t].pc = "save_open"
    /\ state' = [state EXCEPT !.last_error = Some("OSError")]
    /\ thr' = [thr EXCEPT ![t].pc = "finally", ![t].out = None]
    /\ req' = None
    /\ resp' = NoResponse
    /\ UNCHANGED <<dataFile, relayFile, clock, http, nCycles>>

\* The requests of SpecServe: one rejected and one accepted.
ServeRelayRequests ==
    Requests({SCRAPE_TOKEN},
             Bodies({None}, {Some("SeatGeek")},
                    {Some(PRICE_MIN * Scale - 1), Some(1000 * Scale + 1)},
                    {Some(900 * Scale)}, {None}))

\* The steps of one run_scrape thread.
ThreadStep(t) ==
    \/ ScrapeStart(t)
    \/ CallStubhub(t)
    \/ CallSeatgeek(t)
    \/ CallTickpick(t)
    \/ CallVividseats(t)
    \/ Aggregate(t)
    \/ SaveLoad(t)
    \/ SaveOpen(t)
    \/ SaveRaise(t)
    \/ SaveDump(t)
    \/ Success(t)
    \/ Except(t)
    \/ Finally(t)

NextServe ==
    \/ Tick
    \/ \E token \in QueryTokens :
         /\ token # SCRAPE_TOKEN \/ AlreadyRunning(state) \/ nCycles < MaxServeCycles
         /\ Trigger(token)
    \/ \E r \in ServeRelayRequests : RelayPost(r)
    \/ RelayDump
    \/ StatusGet
    \/ DataGet
    \/ \E t \in Threads : ThreadStep(t)

SpecServe == Init /\ [][NextServe]_vars

\* The /scrape handler and the threads it starts, scheduled fairly: a thread
\* that can take a step takes it.
NextLive ==
    \/ Tick
    \/ /\ AlreadyRunning(state) \/ nCycles < MaxServeCycles
       /\ Trigger(SCRAPE_TOKEN)
    \/ \E t \in Threads : ThreadStep(t)

SpecLive ==
    Init /\ [][NextLive]_vars /\ \A t \in Threads : WF_vars(ThreadStep(t))

\* The /scrape handler and its threads without the relay: cycles overlap,
\* on their own clock reads, and every record comes from the StubHub page.
NextOverlap ==
    \/ Tick
    \/ Trigger(SCRAPE_TOKEN)
    \/ \E t \in Threads : ThreadStep(t)

SpecOverlap == Init /\ [][NextOverlap]_vars

\* C13: a /data query is answered with a complete history document (or 404
\* while no file exists), never with an empty or partially written file,
\* also when it is handled during a scrape cycle's save.
IsData(q) == q # None /\ q[1].path = "/data"

C13_AtomicRead ==
    IsData(req) => \/ resp.code = 404
                   \/ resp.code = 200 /\ resp.body.kind = "json"

\* ------------------------------------- cycles one after another, with saves
\* The requests of SpecSave: entries for two platforms with different
\* floors and medians, with a count of 0, of 5 and without a count.
SaveRelayRequests ==
    Requests({SCRAPE_TOKEN},
             Bodies({None}, {Some("SeatGeek")}, {Some(1100 * Scale)},
                    {Some(1200 * Scale)}, {Some(0), Some(5 * Scale)}))
    \cup
    Requests({SCRAPE_TOKEN},
             Bodies({None}, {Some(" tickpick ")}, {Some(900 * Scale)},
                    {Some(1000 * Scale), Some(1001 * Scale)}, {None}))

\* A client that posts relay data and triggers a cycle only while no cycle
\* is in progress.
NextSave ==
    \/ Tick
    \/ /\ \A t \in Threads : thr[t].pc = "idle"
       /\ Trigger(SCRAPE_TOKEN)
    \/ /\ \A t \in Threads : thr[t].pc = "idle"
       /\ \E r \in SaveRelayRequests : RelayPost(r)
    \/ RelayDump
    \/ \E t \in Threads : ThreadStep(t)

SpecSave == Init /\ [][NextSave]_vars

\* C14: the cross_median of every record is the mean of its platforms'
\* medians rounded to a nearest whole number, and its cross_floor is the
\* least of its platforms' floors.
NamesOf(r) == SelectSeq(PlatformOrder, LAMBDA n : n \in DOMAIN r.platforms)

MediansOf(r) == [i \in DOMAIN NamesOf(r) |-> r.platforms[NamesOf(r)[i]].median]

FloorsOf(r) == {r.platforms[n].floor : n \in DOMAIN r.platforms}

\* x is a whole number nearest to num / den (den > 0).
Nearest(x, num, den) == 2 * Abs(x * den - num) <= den

CrossOk(r) ==
    /\ r.cross_median # None
    /\ Nearest(r.cross_median[1], SumSeq(MediansOf(r)), Len(MediansOf(r)))
    /\ r.cross_floor # None
    /\ r.cross_floor[1] \in FloorsOf(r)
    /\ \A f \in FloorsOf(r) : r.cross_floor[1] <= f

C14_CrossStats ==
    /\ \A t \in Threads : thr[t].today # None => CrossOk(thr[t].today[1])
    /\ dataFile.kind = "json"
         => \A i \in DOMAIN dataFile.doc.history : CrossOk(dataFile.doc.history[i])

\* Persisted: medians 1200 and 1000 with floors 1100 and 900 give 1100 and
\* 900; medians 1200 and 1001 (mean 1100.5) give 1100.
C14_Witness ==
    /\ dataFile.kind = "json"
    /\ Len(dataFile.doc.history) = 2
    /\ LET a == dataFile.doc.history[1]
           b == dataFile.doc.history[2]
       IN  /\ DOMAIN a.platforms = {"seatgeek", "tickpick"}
           /\ a.platforms["tickpick"].median = 1000
           /\ a.cross_median = Some(1100)
           /\ a.cross_floor = Some(900)
           /\ DOMAIN b.platforms = {"seatgeek", "tickpick"}
           /\ b.platforms["tickpick"].median = 1001
           /\ b.cross_median = Some(1100)

\* C15: in every persisted document inventory_wow_pct is null when the
\* history has fewer than two records or the record before the latest has
\* total_inventory 0; otherwise it is (latest - previous) / previous * 100
\* of the total inventories of the two most recent records, to one decimal
\* (the model holds it in tenths).
WowOk(doc) ==
    LET h == doc.history
        n == Len(h)
    IN  IF n < 2 \/ h[n - 1].total_inventory = 0
        THEN doc.trends.inventory_wow_pct = None
        ELSE /\ doc.trends.inventory_wow_pct # None
             /\ Nearest(doc.trends.inventory_wow_pct[1],
                        (h[n].total_inventory - h[n - 1].total_inventory) * 1000,
                        h[n - 1].total_inventory)

C15_InventoryWow == dataFile.kind = "json" => WowOk(dataFile.doc)

\* C16: in every persisted document median_7d_slope is 0 when the history
\* has fewer than two records, else (cross_median of the latest record -
\* cross_median of the record before it) / 7 rounded to one decimal (the
\* model holds it in tenths).
SlopeOk(doc) ==
    LET h == doc.history
        n == Len(h)
    IN  IF n < 2 THEN doc.trends.median_7d_slope = 0
        ELSE Nearest(doc.trends.median_7d_slope,
                     (h[n].cross_median[1] - h[n - 1].cross_median[1]) * 10, 7)

C16_MedianSlope == dataFile.kind = "json" => SlopeOk(dataFile.doc)

\* Persisted: cross_median 1200 on day 0 and 1000 on day 1, slope -28.6.
C16_Witness ==
    /\ dataFile.kind = "json"
    /\ Len(dataFile.doc.history) = 2
    /\ dataFile.doc.history[1].cross_median = Some(1200)
    /\ dataFile.doc.history[2].cross_median = Some(1000)
    /\ dataFile.doc.trends.median_7d_slope = -286

\* C17: a relay-derived platform result of a record comes from a relay
\* entry dated as the record.  Entries are only ever replaced by entries of
\* the same or a later date, so the entry the relay file holds for that
\* platform is then dated no earlier than the record.
RelayDatedFor(r) ==
    \A name \in RelayReaders \cap DOMAIN r.platforms :
        relayFile.kind = "json"
          => /\ name \in DOMAIN relayFile.doc
             /\ relayFile.doc[name].date >= r.date

C17_RelayDateIsRecordDate ==
    /\ \A t \in Threads :
         /\ thr[t].today # None => RelayDatedFor(thr[t].today[1])
         /\ thr[t].out # None => RelayDatedFor(thr[t].out[1].today)
    /\ dataFile.kind = "json"
         => \A i \in DOMAIN dataFile.doc.history : RelayDatedFor(dataFile.doc.history[i])

\* C18: each scraper call, whatever it returns, changes only its own
\* platform's result and hands over to the next platform in the order
\* stubhub, seatgeek, tickpick, vividseats; after the last one the cycle
\* fails if and only if all four are inactive, and otherwise builds its
\* record from exactly the active ones.
PcAfter(k) == IF k < Len(PlatformOrder) THEN ReadPc(PlatformOrder[k + 1]) ELSE "aggregate"

C18_FailureIsolation ==
    [][\A t \in Threads :
         /\ \A k \in DOMAIN PlatformOrder :
              (thr[t].pc = ReadPc(PlatformOrder[k]) /\ Moved(t))
                => /\ thr'[t].pc = PcAfter(k)
                   /\ \A n \in PlatformNames \ {PlatformOrder[k]} :
                        thr'[t].platforms[n] = thr[t].platforms[n]
         /\ (thr[t].pc = "aggregate" /\ Moved(t))
              => /\ thr'[t].pc = "except"
                      <=> \A n \in PlatformNames : thr[t].platforms[n] = None
                 /\ thr'[t].pc # "except"
                      => /\ thr'[t].pc = "save_load"
                         /\ thr'[t].today # None
                         /\ DOMAIN thr'[t].today[1].platforms
                              = {n \in PlatformNames : thr[t].platforms[n] # None}]_vars

\* The StubHub fetch failed, seatgeek and tickpick had no entry, and the
\* cycle went on to build its record from vividseats alone.
C18_Witness ==
    /\ thr[1].pc = "save_load"
    /\ thr[1].today # None
    /\ DOMAIN thr[1].today[1].platforms = {"vividseats"}

\* C19: under fair scheduling of the threads, whenever a cycle has been
\* started the server reaches a state where every run_scrape has returned
\* and running is false (so that a /scrape request starts a cycle again),
\* whether the cycle saved, found no active platform or raised in the save.
C19_CycleEnds ==
    (\E t \in Threads : thr[t].pc # "idle")
      ~> (~state.running /\ \A t \in Threads : thr[t].pc = "idle")

\* A cycle whose save raised has ended: the error is recorded, running is
\* false and nothing was written.
C19_Witness ==
    /\ nCycles = 1
    /\ \A t \in Threads : thr[t].pc = "idle"
    /\ state.started_at # None
    /\ ~state.running
    /\ state.last_error = Some("OSError")
    /\ dataFile = Absent

\* C20: no HTTP handler step (/relay accepted or rejected, /status, /data,
\* /scrape rejected, already_running or started) changes a field of
\* ScrapeState; it changes only in a step of a run_scrape thread.
C20_StateFrame ==
    [][/\ req' # None => state' = state
       /\ state' # state => \E t \in Threads : Moved(t)]_vars

\* A /status query was answered in the middle of a cycle, after line 306
\* and before the finally block.
C20_Witness ==
    /\ req # None
    /\ req[1].path = "/status"
    /\ resp.body.running
    /\ state.running
    /\ state.last_success # None

\* C21: a save for date d leaves every stored record of another date
\* unchanged: whenever a save overwrites a stored document, by truncating
\* it or by dumping over it, every stored record whose date is not d is in
\* the history the save writes, and the dump writes that history.
KeepsOthers(file, out) ==
    file.kind = "json"
      => \A i \in DOMAIN file.doc.history :
           file.doc.history[i].date # out.today.date
             => \E j \in DOMAIN out.history : out.history[j] = file.doc.history[i]

C21_AppendOnly ==
    [][\A t \in Threads :
         /\ (thr[t].pc = "save_open" /\ thr'[t].pc = "save_dump")
              => KeepsOthers(dataFile, thr[t].out[1])
         /\ (thr[t].pc = "save_dump" /\ thr'[t].pc = "success")
              => /\ KeepsOthers(dataFile, thr[t].out[1])
                 /\ dataFile' = Json(thr[t].out[1])]_vars

\* ----------------------------------------------- prices at the bounds
\* The requests of SpecBounds: floors and medians at, just inside and just
\* outside PRICE_MIN and PRICE_MAX.
BoundsRelayRequests ==
    Requests({SCRAPE_TOKEN},
             Bodies({None}, {Some("SeatGeek")},
                    {Some(PRICE_MIN * Scale - 1), Some(PRICE_MIN * Scale),
                     Some(PRICE_MIN * Scale + 1), Some(PRICE_MAX * Scale),
                     Some(PRICE_MAX * Scale + 1)},
                    {Some(PRICE_MIN * Scale), Some(PRICE_MAX * Scale)},
                    {None}))

\* A client that posts relay data and triggers a cycle only while no cycle
\* is in progress, starting from empty files.
NextBounds ==
    \/ Tick
    \/ /\ \A t \in Threads : thr[t].pc = "idle"
       /\ Trigger(SCRAPE_TOKEN)
    \/ /\ \A t \in Threads : thr[t].pc = "idle"
       /\ \E r \in BoundsRelayRequests : RelayPost(r)
    \/ RelayDump
    \/ \E t \in Threads : ThreadStep(t)

SpecBounds == Init /\ [][NextBounds]_vars

\* C22: every entry of the relay file and every platform result of every
\* persisted record has its floor and its median within [PRICE_MIN,
\* PRICE_MAX], and so has every persisted cross_floor and cross_median.
PriceInRange(x) == PRICE_MIN <= x /\ x <= PRICE_MAX

RecordInRange(r) ==
    /\ \A n \in DOMAIN r.platforms :
         PriceInRange(r.platforms[n].floor) /\ PriceInRange(r.platforms[n].median)
    /\ r.cross_floor # None /\ PriceInRange(r.cross_floor[1])
    /\ r.cross_median # None /\ PriceInRange(r.cross_median[1])

C22_PricesInRange ==
    /\ relayFile.kind = "json"
         => \A n \in DOMAIN relayFile.doc :
              /\ PriceInRange(relayFile.doc[n].floor)
              /\ PriceInRange(relayFile.doc[n].median)
    /\ dataFile.kind = "json"
         => /\ RecordInRange(dataFile.doc.today)
            /\ \A i \in DOMAIN dataFile.doc.history :
                 RecordInRange(dataFile.doc.history[i])

\* Persisted: a relayed floor of 800.5 stored as PRICE_MIN with a median of
\* PRICE_MAX, beside the StubHub result computed by pstats.
C22_Witness ==
    /\ IsRelay(req)
    /\ req[1].body[1].floor = Some(PRICE_MIN * Scale + 1)
    /\ StatusOf(resp) = "saved"
    /\ relayFile.kind = "json"
    /\ relayFile.doc["seatgeek"].floor = PRICE_MIN
    /\ dataFile.kind = "json"
    /\ DOMAIN dataFile.doc.today.platforms = {"stubhub", "seatgeek"}
    /\ dataFile.doc.today.platforms["seatgeek"].median = PRICE_MAX
    /\ dataFile.doc.today.platforms["stubhub"].floor = PRICE_MIN

\* C23: a cycle ends in one of two ways.  (a) Its save writes its document
\* while ScrapeState is untouched, and then line 306 sets last_success, at
\* which point last_error is null and the document is in the file.  (b) The
\* except clause sets last_error and leaves last_success.  The finally
\* block is reached in no other way, and a starting cycle clears
\* last_error.
C23_OutcomeDichotomy ==
    [][\A t \in Threads :
         /\ (thr[t].pc = "save_dump" /\ Moved(t))
              => /\ thr'[t].pc = "success"
                 /\ dataFile' = Json(thr[t].out[1])
                 /\ state' = state
         /\ (thr[t].pc = "success" /\ Moved(t))
              => /\ thr'[t].pc = "finally"
                 /\ state.last_error = None
                 /\ state'.last_error = None
                 /\ state'.last_success = Some(clock)
                 /\ dataFile.kind = "json"
                 /\ dataFile' = dataFile
         /\ (thr[t].pc \in {"except", "save_open"} /\ thr'[t].pc = "finally")
              => /\ state'.last_error # None
                 /\ state'.last_success = state.last_success
         /\ (thr'[t].pc = "finally" /\ Moved(t))
              => thr[t].pc \in {"success", "except", "save_open"}
         /\ (thr[t].pc = "start" /\ Moved(t))
              => state'.last_error = None]_vars

====
